---- MODULE Spec2Model ----
(***************************************************************************)
(* earthcode/prr.py: a read-only view of the members of a remote ZIP       *)
(* archive, built from the archive's trailing bytes only                   *)
(* (build_zip_info, ReadOnlyZipFileSystem.__init__ and ._cat_file).        *)
(*                                                                         *)
(* Strings are sequences of one-character strings; bytes are integers      *)
(* 0..255; an optional value (Python None or a value) is <<>> or <<v>>.    *)
(***************************************************************************)
EXTENDS Integers, Sequences, FiniteSets, TLC

VARIABLES
    zip,        \* the remote archive: the members as the archive's writer laid them out
    phase,      \* "new" (no view yet), "waiting" (__init__ blocked in the tail request),
                \* "open" (__init__ returned), "failed" (__init__ raised)
    end_mb,     \* the end_mb argument of __init__, <<>> before construction
    files,      \* self._files: <<>> (None) or <<member table>>
    call,       \* the call on the view whose outcome the caller holds, or NoCall
    result,     \* what that call (or a failed __init__) returned or raised
    issued,     \* the byte ranges that call requested from self.fs, in order
    served,     \* what self.fs answered to that call's request, NotServed without one
    tail,       \* how the tail request of __init__ ended, "none" before it
    fetches,    \* the number of tail requests made so far
    log,        \* the range requests self.fs received in a session of calls, in order
    tasks       \* the coroutines of _cat_file running on a shared view, by task

vars == <<zip, phase, end_mb, files, call, result, issued, served, tail, fetches,
          log, tasks>>

\* ------------------------------------------------------------------ bounds

MaxMembers == 2
MaxSize == 2
MaxExtra == 1
\* The most range requests one session of calls makes of the byte source.
MaxLog == 2
\* The number of coroutines of _cat_file that share one view.
MaxTasks == 2

\* --------------------------------------------------------- ZIP format sizes

\* The fixed part of a local file header (the 30 of build_zip_info).
LocalHeaderSize == 30
\* The fixed part of a central-directory record, read by ZipFile.
CentralRecordSize == 46
\* The End-Of-Central-Directory record (no archive comment), read by ZipFile.
EndRecordSize == 22

\* ----------------------------------------------------------------- strings

Slash == "/"
Dot == "."
\* "U" stands for one non-ASCII character (such as e-acute): one character of a
\* Python str, two bytes in the UTF-8 name a ZIP header stores.
Chars == {"a", "b", "d", "z", "U", Slash, Dot}

Min(a, b) == IF a < b THEN a ELSE b
Max(a, b) == IF a > b THEN a ELSE b

\* str.encode('utf-8') of one character.
EncodeChar(c) ==
    CASE c = "a" -> <<97>>
      [] c = "b" -> <<98>>
      [] c = "d" -> <<100>>
      [] c = "z" -> <<122>>
      [] c = Slash -> <<47>>
      [] c = Dot -> <<46>>
      [] c = "U" -> <<195, 169>>

RECURSIVE Encode(_)
\* The bytes of a name as a ZIP header stores it (UTF-8).
Encode(s) == IF s = <<>> THEN <<>> ELSE EncodeChar(Head(s)) \o Encode(Tail(s))

RECURSIVE Decode(_)
\* bytes.decode('utf-8'), as ZipFile decodes a central-directory name.
Decode(bs) ==
    IF bs = <<>> THEN <<>>
    ELSE IF Head(bs) = 195
         THEN <<"U">> \o Decode(Tail(Tail(bs)))
         ELSE <<CHOOSE c \in Chars \ {"U"} : EncodeChar(c) = <<Head(bs)>> >>
              \o Decode(Tail(bs))

RECURSIVE rstrip(_)
\* str.rstrip('/')
rstrip(s) ==
    IF s # <<>> /\ s[Len(s)] = Slash THEN rstrip(SubSeq(s, 1, Len(s) - 1)) ELSE s

RECURSIVE lstrip(_)
\* str.lstrip('/')
lstrip(s) == IF s # <<>> /\ Head(s) = Slash THEN lstrip(Tail(s)) ELSE s

\* '/' in s
HasSlash(s) == \E i \in 1..Len(s) : s[i] = Slash

\* The index of the last '/' of s (s holds one).
LastSlash(s) == CHOOSE i \in 1..Len(s) : s[i] = Slash /\ \A j \in (i+1)..Len(s) : s[j] # Slash

\* The index of the first '/' of s (s holds one).
FirstSlash(s) == CHOOSE i \in 1..Len(s) : s[i] = Slash /\ \A j \in 1..(i-1) : s[j] # Slash

\* name.rsplit('/', 1)[0]
rsplitHead(s) == SubSeq(s, 1, LastSlash(s) - 1)

RECURSIVE split(_)
\* str.split('/')
split(s) ==
    IF HasSlash(s)
    THEN <<SubSeq(s, 1, FirstSlash(s) - 1)>> \o split(SubSeq(s, FirstSlash(s) + 1, Len(s)))
    ELSE <<s>>

RECURSIVE join(_)
\* '/'.join(comps)
join(comps) ==
    IF comps = <<>> THEN <<>>
    ELSE IF Len(comps) = 1 THEN comps[1]
    ELSE comps[1] \o <<Slash>> \o join(Tail(comps))

\* str.startswith
startswith(s, p) == Len(s) >= Len(p) /\ SubSeq(s, 1, Len(p)) = p

RECURSIVE normcomps(_, _, _)
\* The loop of posixpath.normpath over the components, new_comps in acc.
normcomps(comps, initial_slashes, acc) ==
    IF comps = <<>> THEN acc
    ELSE LET comp == Head(comps)
             dotdot == <<Dot, Dot>>
         IN IF comp = <<>> \/ comp = <<Dot>>
            THEN normcomps(Tail(comps), initial_slashes, acc)
            ELSE IF comp # dotdot
                    \/ (initial_slashes = 0 /\ acc = <<>>)
                    \/ (acc # <<>> /\ acc[Len(acc)] = dotdot)
                 THEN normcomps(Tail(comps), initial_slashes, Append(acc, comp))
                 ELSE IF acc # <<>>
                      THEN normcomps(Tail(comps), initial_slashes, SubSeq(acc, 1, Len(acc) - 1))
                      ELSE normcomps(Tail(comps), initial_slashes, acc)

\* posixpath.normpath
normpath(path) ==
    IF path = <<>> THEN <<Dot>>
    ELSE LET initial_slashes ==
                 IF ~startswith(path, <<Slash>>) THEN 0
                 ELSE IF startswith(path, <<Slash, Slash>>)
                         /\ ~startswith(path, <<Slash, Slash, Slash>>)
                      THEN 2 ELSE 1
             body == join(normcomps(split(path), initial_slashes, <<>>))
             out == [i \in 1..initial_slashes |-> Slash] \o body
         IN IF out = <<>> THEN <<Dot>> ELSE out

\* The path normalisation of _cat_file.
NormalizePath(path) == rstrip(lstrip(normpath(path)))

\* ------------------------------------------------------- the remote archive

\* The names the archives are made of: a file at the root, a file one and two
\* levels down, a declared directory record, and a non-ASCII name.
NamePool == << <<"a">>, <<"d", Slash, "a">>, <<"d", Slash, "b", Slash, "a">>,
               <<"d", Slash>>, <<"U">> >>

\* The content of the member at position i: bytes no header or name holds.
ContentOf(i, n) == [j \in 1..n |-> 100 + 10 * i + j]

RECURSIVE SortedSeq(_)
SortedSeq(S) ==
    IF S = {} THEN <<>>
    ELSE LET m == CHOOSE x \in S : \A y \in S : x <= y
         IN <<m>> \o SortedSeq(S \ {m})

\* One archive: the names picked by S in pool order; member k holds
\* (base + k - 1) % (MaxSize + 1) content bytes (a directory record none), and
\* the first member's local header carries an extra field of exlen bytes.
MakeZip(S, base, exlen) ==
    LET idx == SortedSeq(S)
    IN [k \in 1..Len(idx) |->
          LET name == NamePool[idx[k]]
              size == IF name[Len(name)] = Slash THEN 0
                      ELSE (base + k - 1) % (MaxSize + 1)
          IN [filename |-> name,
              extra    |-> IF k = 1 THEN exlen ELSE 0,
              content  |-> ContentOf(k, size)]]

Archives ==
    { MakeZip(S, base, exlen) :
        S \in {T \in SUBSET (1..Len(NamePool)) : Cardinality(T) \in 1..MaxMembers},
        base \in 0..MaxSize, exlen \in 0..MaxExtra }

\* One member in the archive: local file header, name, extra field, content.
LocalEntrySize(m) ==
    LocalHeaderSize + Len(Encode(m.filename)) + m.extra + Len(m.content)

\* Byte k (from 0) of a member's local entry: the fixed header (written 0), the
\* name, the extra field (written 255), the content.
LocalEntryByte(m, k) ==
    LET n == Len(Encode(m.filename))
    IN IF k < LocalHeaderSize THEN 0
       ELSE IF k < LocalHeaderSize + n THEN Encode(m.filename)[k - LocalHeaderSize + 1]
       ELSE IF k < LocalHeaderSize + n + m.extra THEN 255
       ELSE m.content[k - LocalHeaderSize - n - m.extra + 1]

RECURSIVE LocalSectionSize(_)
LocalSectionSize(z) ==
    IF z = <<>> THEN 0 ELSE LocalEntrySize(Head(z)) + LocalSectionSize(Tail(z))

RECURSIVE CentralDirSize(_)
\* One central-directory record per member: the fixed part and the name.
CentralDirSize(z) ==
    IF z = <<>> THEN 0
    ELSE CentralRecordSize + Len(Encode(Head(z).filename)) + CentralDirSize(Tail(z))

\* The size of the whole remote object: members, central directory, end record.
ArchiveSize(z) == LocalSectionSize(z) + CentralDirSize(z) + EndRecordSize

\* The local-header offset the central directory records for member i.
RecordedOffset(z, i) == LocalSectionSize(SubSeq(z, 1, i - 1))

\* Where member i's content really starts in the archive.
TrueContentStart(z, i) ==
    RecordedOffset(z, i) + LocalHeaderSize + Len(Encode(z[i].filename)) + z[i].extra

\* The byte at position pos (from 0) of the remote object; the central directory
\* and the end record are written 1.
ByteAt(z, pos) ==
    IF pos >= LocalSectionSize(z) THEN 1
    ELSE LET i == CHOOSE j \in 1..Len(z) :
                     /\ RecordedOffset(z, j) <= pos
                     /\ pos < RecordedOffset(z, j) + LocalEntrySize(z[j])
         IN LocalEntryByte(z[i], pos - RecordedOffset(z, i))

\* self.fs._cat_file(self.path, start=a, end=b): bytes [a, b) of the remote object.
FetchRange(z, a, b) ==
    LET lo == Max(a, 0)
        hi == Min(b, ArchiveSize(z))
    IN [k \in 1..(hi - lo) |-> ByteAt(z, lo + k - 1)]

\* How self.fs may answer a range request: with all the bytes, with fewer bytes
\* than asked for, or by raising.
SourceChoices == {"full", "short", "error"}

NotServed == [kind |-> "none", data |-> <<>>]

\* The answer of self.fs to the request for [a, b): a short answer lacks the
\* last byte.
Respond(z, a, b, src) ==
    LET all == FetchRange(z, a, b)
    IN IF src = "error" THEN [kind |-> "error", data |-> <<>>]
       ELSE IF src = "short" THEN [kind |-> "short", data |-> SubSeq(all, 1, Len(all) - 1)]
       ELSE [kind |-> "full", data |-> all]

\* How the tail request may end: 206 with Content-Range, a 404 or 416 status, a
\* 200 without Content-Range (the server ignored Range), a network error, or not
\* at all ("silent": the server accepts the connection and never answers).
TailChoices == {"206", "404", "416", "200", "error", "silent"}

\* tail_failure without r.raise_for_status(): a 404 or 416 answer is parsed.
tail_failure_no_status_check(resp) ==
    IF resp = "error" THEN "ConnectionError"
    ELSE IF resp = "200" THEN "KeyError"
    ELSE ""

\* What __init__ raises before it parses the tail, "" when it goes on:
\* requests.get raises on a network error, r.raise_for_status() on a 4xx status,
\* r.headers['Content-Range'] on a response without that header.
tail_failure(resp) ==
    IF resp = "error" THEN "ConnectionError"
    ELSE IF resp \in {"404", "416"} THEN "HTTPError"
    ELSE IF resp = "200" THEN "KeyError"
    ELSE ""

\* r.content of the request "Range: bytes=-end_mb": the last end_mb bytes, or
\* the whole object when it is shorter.
TailLength(z, mb) == Min(mb, ArchiveSize(z))

\* ----------------------------------------------------- ZipFile(BytesIO(tail))

\* ZipFile finds the end record at the end of the tail and the central directory
\* right before it; "concat" is what it adds to every recorded offset.
Concat(z, tail_len) ==
    (tail_len - EndRecordSize) - CentralDirSize(z) - LocalSectionSize(z)

\* ZipFileOpens without the test of where the central directory starts.
ZipFileOpens_no_start_check(z, tail_len) == tail_len >= EndRecordSize

\* ZipFile raises BadZipFile when the tail holds no whole end record or the
\* central directory would start before the tail does.
ZipFileOpens(z, tail_len) ==
    /\ tail_len >= EndRecordSize
    /\ LocalSectionSize(z) + Concat(z, tail_len) >= 0

\* zf.infolist(): one ZipInfo per central-directory record.
infolist(z, tail_len) ==
    [i \in 1..Len(z) |->
        [filename      |-> Decode(Encode(z[i].filename)),
         file_size     |-> Len(z[i].content),
         header_offset |-> RecordedOffset(z, i) + Concat(z, tail_len)]]

\* ------------------------------------------------------------ build_zip_info

\* content_offset with the tail's start left out: the offset ZipFile reports for
\* the tail, taken as an offset in the archive.
content_offset_no_rebase(content_size, original_file_size, header_offset, name) ==
    LocalHeaderSize + header_offset + Len(name)

\* The "offset" of a file entry.
content_offset(content_size, original_file_size, header_offset, name) ==
    (content_size + LocalHeaderSize - original_file_size) + header_offset + Len(name)

\* The parent a name is registered under.
parent_of(name) == IF HasSlash(name) THEN rsplitHead(name) ELSE <<>>

RECURSIVE collect(_, _, _)
\* The first loop over zf.infolist(): info_dict and children after all of infos.
collect(infos, content_size, original_file_size) ==
    IF infos = <<>> THEN [info_dict |-> <<>>, children |-> <<>>]
    ELSE LET before == collect(SubSeq(infos, 1, Len(infos) - 1), content_size,
                               original_file_size)
             info == infos[Len(infos)]
             name == rstrip(info.filename)
         IN IF name = <<>> THEN before
            ELSE LET entry == [size   |-> info.file_size,
                               offset |-> content_offset(content_size, original_file_size,
                                                         info.header_offset, name)]
                     parent == parent_of(name)
                     kids == IF parent \in DOMAIN before.children
                             THEN before.children[parent] ELSE <<>>
                 IN [info_dict |-> (name :> entry) @@ before.info_dict,
                     children  |-> (parent :> Append(kids, name)) @@ before.children]

\* add_directories that gives every entry a children list, empty for a name
\* that is nobody's parent.
add_directories_all(info_dict, children) ==
    [n \in (DOMAIN info_dict) \cup (DOMAIN children) |->
        IF n \notin DOMAIN info_dict
        THEN [children |-> children[n]]
        ELSE [size     |-> info_dict[n].size,
              offset   |-> info_dict[n].offset,
              children |-> IF n \in DOMAIN children THEN children[n] ELSE <<>>]]

\* The second loop: info_dict.setdefault(parent, {})["children"] = child_list.
add_directories(info_dict, children) ==
    [n \in (DOMAIN info_dict) \cup (DOMAIN children) |->
        IF n \notin DOMAIN children THEN info_dict[n]
        ELSE IF n \notin DOMAIN info_dict THEN [children |-> children[n]]
        ELSE [size     |-> info_dict[n].size,
              offset   |-> info_dict[n].offset,
              children |-> children[n]]]

build_zip_info(infos, content_size, original_file_size) ==
    LET c == collect(infos, content_size, original_file_size)
    IN add_directories(c.info_dict, c.children)

\* ------------------------------------------------------------------ results

NoCall == [op |-> "none", path |-> <<>>, start |-> <<>>, end |-> <<>>]
Returned(data) == [status |-> "return", exc |-> "", msg |-> "", data |-> data]
Raised(exc, msg) == [status |-> "raise", exc |-> exc, msg |-> msg, data |-> <<>>]
NoResult == [status |-> "none", exc |-> "", msg |-> "", data |-> <<>>]

\* ------------------------------------------------------------------- inputs

\* The default of end_mb.
DefaultEndMb == 1048576

\* The end_mb values tried on an archive: one byte short of the central directory
\* and end record, exactly them (the tail holds no member), and the default,
\* which is larger than the whole archive.
WindowChoices(z) ==
    LET need == CentralDirSize(z) + EndRecordSize
    IN {need - 1, need, DefaultEndMb}

\* Windows that hold less than the central directory: one byte short of the end
\* record, and the end record alone.
SmallWindowChoices == {EndRecordSize - 1, EndRecordSize}

\* The prefixes of name obtained by truncating it at one of its '/'.
SlashPrefixes(name) == { SubSeq(name, 1, i - 1) : i \in {j \in 1..Len(name) : name[j] = Slash} }

\* The paths asked of a view of z: every member name as it is, with a leading and
\* with a trailing slash, every '/'-prefix of a member name, the root, the empty
\* path and a name no archive holds.
PathChoices(z) ==
    UNION { {z[i].filename, <<Slash>> \o z[i].filename, rstrip(z[i].filename) \o <<Slash>>}
            \cup SlashPrefixes(z[i].filename) : i \in 1..Len(z) }
    \cup {<<>>, <<Slash>>, <<"z">>}

\* The size the table holds for name, 0 when it holds none.
SizeOf(tab, name) ==
    IF name \in DOMAIN tab /\ "size" \in DOMAIN tab[name] THEN tab[name].size ELSE 0

\* The start values asked of a member of size S: unspecified, -MaxSize..MaxSize
\* and S + 10; the end values: unspecified, -MaxSize..MaxSize and S + 20.
StartChoices(S) == {<<>>} \cup { <<v>> : v \in (-MaxSize..MaxSize) \cup {S + 10} }
EndChoices(S) == {<<>>} \cup { <<v>> : v \in (-MaxSize..MaxSize) \cup {S + 20} }

\* The offsets asked with a path that is no file of the table as written (a name
\* with a slash added, a directory, an absent name): unspecified, zero, one from
\* either end.
FewStarts == {<<>>, <<0>>, <<-1>>}
FewEnds == {<<>>, <<0>>, <<1>>}

\* The answers of self.fs explored for a request: all of them for a call with
\* the few offsets, the whole range for the others.
AnswersFor(start, end) ==
    IF start \in FewStarts /\ end \in FewEnds THEN SourceChoices ELSE {"full"}

\* ------------------------------------------------------------------ actions

\* No coroutine of _cat_file runs.
NoTasks == <<>>

\* Before construction, for a remote archive out of Z.
InitView(Z) ==
    /\ zip \in Z
    /\ phase = "new"
    /\ end_mb = <<>>
    /\ files = <<>>
    /\ call = NoCall
    /\ result = NoResult
    /\ issued = <<>>
    /\ served = NotServed
    /\ tail = "none"
    /\ fetches = 0
    /\ log = <<>>
    /\ tasks = NoTasks

Init == InitView(Archives)

\* parsed_files left for later: the view is handed out with self._files unset.
parsed_files_lazy(z, mb) == <<>>

\* self._files once the tail is parsed.
parsed_files(z, mb) ==
    <<build_zip_info(infolist(z, TailLength(z, mb)), ArchiveSize(z), TailLength(z, mb))>>

\* ReadOnlyZipFileSystem.__init__(fs, path, end_mb): the tail request, the parse
\* of the tail and build_zip_info. requests.get is called without a timeout, so
\* __init__ stays in the request for as long as the server stays silent.
Construct(mb, resp) ==
    /\ phase = "new"
    /\ end_mb' = <<mb>>
    /\ call' = NoCall
    /\ issued' = <<>>
    /\ served' = NotServed
    /\ tail' = resp
    /\ fetches' = fetches + 1
    /\ IF resp = "silent"
       THEN /\ files' = <<>>
            /\ phase' = "waiting"
            /\ result' = NoResult
       ELSE IF tail_failure(resp) # ""
       THEN /\ files' = <<>>
            /\ phase' = "failed"
            /\ result' = Raised(tail_failure(resp), "")
       ELSE IF ZipFileOpens(zip, TailLength(zip, mb))
       THEN /\ files' = parsed_files(zip, mb)
            /\ phase' = "open"
            /\ result' = NoResult
       ELSE /\ files' = <<>>
            /\ phase' = "failed"
            /\ result' = Raised("BadZipFile", "")
    /\ UNCHANGED zip

\* "x or d" for an optional integer x: d when x is None or 0.
OrDefault(x, d) == IF x = <<>> THEN d ELSE IF x[1] = 0 THEN d ELSE x[1]

\* FromEnd without the clamp at the beginning of the member.
FromEnd_unclamped(v, size) == IF v < 0 THEN size + v ELSE v

\* FromEnd with a negative offset taken for the beginning of the member.
FromEnd_floor(v, size) == IF v < 0 THEN 0 ELSE v

\* A negative offset counts from the end of the member, clamped at 0.
FromEnd(v, size) == IF v < 0 THEN Max(0, size + v) ELSE v

\* The range of the member _cat_file reads, after the defaults and the negative
\* offsets: <<start, end>>.
cat_range(info, start, end) ==
    <<FromEnd(OrDefault(start, 0), info.size), FromEnd(OrDefault(end, info.size), info.size)>>

\* is_empty_range without the test: every range goes to self.fs.
is_empty_range_never(r, size) == FALSE

\* "For start beyond the end of the file or the end, return empty data."
is_empty_range(r, size) == r[1] >= size \/ r[2] <= r[1]

\* read_range without the clamp of end at the member's size.
read_range_unclamped(info, r) == <<info.offset + r[1], info.offset + r[2]>>

\* read_start and read_start + read_size: the range asked of self.fs.
read_range(info, r) ==
    LET read_start == info.offset + r[1]
        read_size == Min(r[2], info.size) - r[1]
    IN <<read_start, read_start + read_size>>

\* member_kind with the two tests in the wrong order: a path the table does not
\* hold is taken for a directory.
member_kind_swapped(tab, path) ==
    IF path \in DOMAIN tab /\ "children" \notin DOMAIN tab[path] THEN "file"
    ELSE "directory"

\* "Check if the file is available": what the table holds for path.
member_kind(tab, path) ==
    IF path \notin DOMAIN tab THEN "absent"
    ELSE IF "children" \in DOMAIN tab[path] THEN "directory"
    ELSE "file"

\* What _cat_file(path, start, end) does on table tab when self.fs answers as
\* src: its outcome, the ranges it asks of self.fs and the answer it gets.
cat_outcome(z, tab, path, start, end, src) ==
    LET p == NormalizePath(path)
        kind == member_kind(tab, p)
    IN IF kind = "absent"
       THEN [result |-> Raised("FileNotFoundError", "not found"),
             issued |-> <<>>, served |-> NotServed]
       ELSE IF kind = "directory"
       THEN [result |-> Raised("FileNotFoundError", "is a directory"),
             issued |-> <<>>, served |-> NotServed]
       ELSE LET info == tab[p]
                r == cat_range(info, start, end)
            IN IF is_empty_range(r, info.size)
               THEN [result |-> Returned(<<>>), issued |-> <<>>, served |-> NotServed]
               ELSE LET rr == read_range(info, r)
                        resp == Respond(z, rr[1], rr[2], src)
                    IN [result |-> IF resp.kind = "error"
                                   THEN Raised("ClientResponseError", "")
                                   ELSE Returned(resp.data),
                        issued |-> <<rr>>,
                        served |-> resp]

\* ReadOnlyZipFileSystem._cat_file(path, start, end)
cat_file(path, start, end) ==
    /\ phase = "open"
    /\ call = NoCall
    /\ call' = [op |-> "cat", path |-> path, start |-> start, end |-> end]
    /\ \E src \in IF cat_outcome(zip, files[1], path, start, end, "full").issued = <<>>
                  THEN {"full"} ELSE AnswersFor(start, end) :
          LET o == cat_outcome(zip, files[1], path, start, end, src)
          IN /\ result' = o.result
             /\ issued' = o.issued
             /\ served' = o.served
    /\ UNCHANGED <<zip, phase, end_mb, files, tail, fetches>>

\* ls(path) on the view: ReadOnlyZipFileSystem defines no _ls, so the one it
\* inherits from AsyncFileSystem runs, which raises NotImplementedError.
ls(path) ==
    /\ phase = "open"
    /\ call = NoCall
    /\ call' = [op |-> "ls", path |-> path, start |-> <<>>, end |-> <<>>]
    /\ result' = Raised("NotImplementedError", "")
    /\ issued' = <<>>
    /\ served' = NotServed
    /\ UNCHANGED <<zip, phase, end_mb, files, tail, fetches>>

\* exists(path) on the store of the view: FsspecStore.exists awaits
\* self.fs._exists(path); ReadOnlyZipFileSystem defines neither _exists nor
\* _info, so AsyncFileSystem._exists runs, whose call of _info raises
\* NotImplementedError, which _exists does not catch.
exists(path) ==
    /\ phase = "open"
    /\ call = NoCall
    /\ call' = [op |-> "exists", path |-> path, start |-> <<>>, end |-> <<>>]
    /\ result' = Raised("NotImplementedError", "")
    /\ issued' = <<>>
    /\ served' = NotServed
    /\ UNCHANGED <<zip, phase, end_mb, files, tail, fetches>>

Open ==
    /\ phase = "new"
    /\ \E mb \in WindowChoices(zip) \cup SmallWindowChoices, resp \in TailChoices :
          Construct(mb, resp)
    /\ UNCHANGED <<log, tasks>>

\* A read whose lookup inserts the missing key into the table
\* (self._files.setdefault(path, {})).
Read_inserting ==
    /\ phase = "open"
    /\ call = NoCall
    /\ call' = [op |-> "cat", path |-> <<"z">>, start |-> <<>>, end |-> <<>>]
    /\ files' = << (<<"z">> :> [children |-> <<>>]) @@ files[1] >>
    /\ result' = Raised("FileNotFoundError", "not found")
    /\ issued' = <<>>
    /\ served' = NotServed
    /\ UNCHANGED <<zip, phase, end_mb, tail, fetches, log, tasks>>

Read ==
    /\ phase = "open"
    /\ call = NoCall
    /\ \E path \in PathChoices(zip) :
         LET S == SizeOf(files[1], NormalizePath(path))
             asis == path \in DOMAIN files[1] /\ "size" \in DOMAIN files[1][path]
         IN \E start \in (IF asis THEN StartChoices(S) ELSE FewStarts),
               end \in (IF asis THEN EndChoices(S) ELSE FewEnds) :
               cat_file(path, start, end)
    /\ UNCHANGED <<log, tasks>>

List ==
    /\ phase = "open"
    /\ call = NoCall
    /\ \E path \in PathChoices(zip) : ls(path)
    /\ UNCHANGED <<log, tasks>>

Exists ==
    /\ phase = "open"
    /\ call = NoCall
    /\ \E path \in PathChoices(zip) : exists(path)
    /\ UNCHANGED <<log, tasks>>

\* The caller takes the outcome of its call; the view is ready for the next one.
Return ==
    /\ call # NoCall
    /\ call' = NoCall
    /\ result' = NoResult
    /\ issued' = <<>>
    /\ served' = NotServed
    /\ UNCHANGED <<zip, phase, end_mb, files, tail, fetches, log, tasks>>

Next == Open \/ Read \/ List \/ Exists \/ Return

Spec == Init /\ [][Next]_vars

\* ------------------------------------------------- a session of calls

\* The archives of a session: two file members of 1 and 2 bytes, without extra
\* field, the second name plain, nested or not ASCII.
SessionArchives == { MakeZip({1, k}, 1, 0) : k \in {2, 5} }

\* The paths asked in a session: the names of the members and an absent name.
SessionPaths(z) == { z[i].filename : i \in 1..Len(z) } \cup {<<"z">>}

\* What self.fs records of a call: one entry per range the call asked of it.
logged(ranges, answer) == [k \in 1..Len(ranges) |-> [range |-> ranges[k], kind |-> answer.kind]]

\* A read that answers from the ranges already fetched in full instead of asking
\* self.fs again.
SessionRead_cached ==
    /\ phase = "open"
    /\ call = NoCall
    /\ Len(log) < MaxLog
    /\ \E path \in SessionPaths(zip), start \in {<<>>, <<-1>>} :
          LET o == cat_outcome(zip, files[1], path, start, <<>>, "full")
              hit == \E k \in 1..Len(log) :
                        /\ o.issued # <<>>
                        /\ log[k].range = o.issued[1]
                        /\ log[k].kind = "full"
          IN IF hit
             THEN /\ call' = [op |-> "cat", path |-> path, start |-> start, end |-> <<>>]
                  /\ result' = o.result
                  /\ issued' = <<>>
                  /\ served' = NotServed
                  /\ UNCHANGED <<zip, phase, end_mb, files, tail, fetches>>
             ELSE cat_file(path, start, <<>>)
    /\ log' = log \o logged(issued', served')
    /\ UNCHANGED tasks

\* A read on a view that a failure of self.fs has invalidated: it raises without
\* asking self.fs once an earlier request has failed.
SessionRead_poisoned ==
    /\ phase = "open"
    /\ call = NoCall
    /\ Len(log) < MaxLog
    /\ \E path \in SessionPaths(zip), start \in {<<>>, <<-1>>} :
          IF \E k \in 1..Len(log) : log[k].kind = "error"
          THEN /\ call' = [op |-> "cat", path |-> path, start |-> start, end |-> <<>>]
               /\ result' = Raised("ClientResponseError", "")
               /\ issued' = <<>>
               /\ served' = NotServed
               /\ UNCHANGED <<zip, phase, end_mb, files, tail, fetches>>
          ELSE cat_file(path, start, <<>>)
    /\ log' = log \o logged(issued', served')
    /\ UNCHANGED tasks

\* A read of the session: _cat_file, and self.fs records what it was asked.
SessionRead ==
    /\ phase = "open"
    /\ call = NoCall
    /\ Len(log) < MaxLog
    /\ \E path \in SessionPaths(zip), start \in {<<>>, <<-1>>} :
          cat_file(path, start, <<>>)
    /\ log' = log \o logged(issued', served')
    /\ UNCHANGED tasks

NextSession == Open \/ SessionRead \/ Return

SpecSession == InitView(SessionArchives) /\ [][NextSession]_vars

\* ------------------------------------- concurrent reads on a shared view

Tasks == 1..MaxTasks

\* A task that runs no _cat_file.
IdleTask == [pc |-> "idle", path |-> <<>>, start |-> <<>>, issued |-> <<>>,
             served |-> NotServed, result |-> NoResult]

\* The callers create their tasks on the view that __init__ returned.
Share ==
    /\ phase = "open"
    /\ tasks = NoTasks
    /\ tasks' = [t \in Tasks |-> IdleTask]
    /\ UNCHANGED <<zip, phase, end_mb, files, call, result, issued, served, tail,
                   fetches, log>>

\* Task t calls _cat_file(path, start): the coroutine runs without yielding up to
\* its only await, the request to self.fs, or to the raise or return before it.
\* path, start, read_start and read_size are locals of the coroutine; it reads
\* self._files and self.path and writes no attribute (self._lock is never taken).
Begin(t, path, start) ==
    /\ tasks # NoTasks
    /\ tasks[t].pc = "idle"
    /\ LET o == cat_outcome(zip, files[1], path, start, <<>>, "full")
       IN tasks' = [tasks EXCEPT ![t] =
                      IF o.issued = <<>>
                      THEN [pc |-> "done", path |-> path, start |-> start,
                            issued |-> <<>>, served |-> NotServed, result |-> o.result]
                      ELSE [pc |-> "await", path |-> path, start |-> start,
                            issued |-> o.issued, served |-> NotServed,
                            result |-> NoResult]]
    /\ UNCHANGED <<zip, phase, end_mb, files, call, result, issued, served, tail,
                   fetches, log>>

\* Answer with read_start and read_size kept on the view instead of in the
\* coroutine: the answer is for the range of another task that is waiting.
Answer_shared(t, src) ==
    /\ tasks # NoTasks
    /\ tasks[t].pc = "await"
    /\ LET others == {u \in Tasks \ {t} : tasks[u].pc = "await"}
           rr == IF others = {} THEN tasks[t].issued[1]
                 ELSE tasks[CHOOSE u \in others : TRUE].issued[1]
           resp == Respond(zip, rr[1], rr[2], src)
       IN tasks' = [tasks EXCEPT ![t].pc = "done",
                                 ![t].served = resp,
                                 ![t].result = IF resp.kind = "error"
                                               THEN Raised("ClientResponseError", "")
                                               ELSE Returned(resp.data)]
    /\ UNCHANGED <<zip, phase, end_mb, files, call, result, issued, served, tail,
                   fetches, log>>

\* self.fs answers the request of task t; the coroutine resumes and returns the
\* data or lets the exception through.
Answer(t, src) ==
    /\ tasks # NoTasks
    /\ tasks[t].pc = "await"
    /\ LET rr == tasks[t].issued[1]
           resp == Respond(zip, rr[1], rr[2], src)
       IN tasks' = [tasks EXCEPT ![t].pc = "done",
                                 ![t].served = resp,
                                 ![t].result = IF resp.kind = "error"
                                               THEN Raised("ClientResponseError", "")
                                               ELSE Returned(resp.data)]
    /\ UNCHANGED <<zip, phase, end_mb, files, call, result, issued, served, tail,
                   fetches, log>>

\* The caller of task t takes the outcome.
Finish(t) ==
    /\ tasks # NoTasks
    /\ tasks[t].pc = "done"
    /\ tasks' = [tasks EXCEPT ![t] = IdleTask]
    /\ UNCHANGED <<zip, phase, end_mb, files, call, result, issued, served, tail,
                   fetches, log>>

TaskBegin ==
    \E t \in Tasks, path \in SessionPaths(zip), start \in {<<>>, <<-1>>} :
        Begin(t, path, start)

TaskAnswer == \E t \in Tasks, src \in SourceChoices : Answer(t, src)

TaskFinish == \E t \in Tasks : Finish(t)

NextShared == Open \/ Share \/ TaskBegin \/ TaskAnswer \/ TaskFinish

SpecShared == InitView(SessionArchives) /\ [][NextShared]_vars

\* The same with the scheduling of a started constructor: load_zipzarr calls
\* __init__, which runs without yielding until it returns, raises or blocks.
LiveSpec == Spec /\ WF_vars(Open)

\* ------------------------------------------------------------------- claims

\* The member table of the open view.
Tab == files[1]
\* A _cat_file call has run and its outcome is in result.
ReadDone == phase = "open" /\ call.op = "cat"
\* name is a file member of the table: an entry without children.
IsFileMember(tab, name) == name \in DOMAIN tab /\ "children" \notin DOMAIN tab[name]
\* Member i of the archive is a file record: its name does not end in '/'.
IsFileRecord(z, i) == z[i].filename[Len(z[i].filename)] # Slash
\* The effective offset of the read contract: the default when unspecified,
\* max(0, size + v) when negative.
Effective(v, size, default) ==
    IF v = <<>> THEN default ELSE IF v[1] < 0 THEN Max(0, size + v[1]) ELSE v[1]
\* The positions of the '/' of a name.
SlashesOf(name) == {j \in 1..Len(name) : name[j] = Slash}
\* The path level of name right below its prefix that ends before position i.
NextLevel(name, i) ==
    LET later == {j \in SlashesOf(name) : j > i}
    IN IF later = {} THEN name
       ELSE SubSeq(name, 1, (CHOOSE j \in later : \A k \in later : j <= k) - 1)
\* The names of the immediate children of prefix among the archive's members,
\* relative to prefix.
ImmediateChildren(z, prefix) ==
    { SubSeq(NextLevel(rstrip(z[i].filename), Len(prefix) + 1), Len(prefix) + 2,
             Len(NextLevel(rstrip(z[i].filename), Len(prefix) + 1))) :
        i \in {k \in 1..Len(z) : /\ Len(prefix) + 1 \in SlashesOf(rstrip(z[k].filename))
                                 /\ SubSeq(z[k].filename, 1, Len(prefix)) = prefix} }
\* The '/'-prefixes of the archive's file records.
FilePrefixes(z) ==
    UNION { SlashPrefixes(z[i].filename) : i \in {k \in 1..Len(z) : IsFileRecord(z, k)} }

\* C1: in an archive whose local headers carry no extra field, reading [0, size)
\* of any file member through the view (the byte source answering in full)
\* returns that member's content.
C1_ReadEqualsContent ==
    (ReadDone /\ served.kind \notin {"short", "error"}
     /\ \A k \in 1..Len(zip) : zip[k].extra = 0) =>
        \A i \in 1..Len(zip) :
            (/\ IsFileRecord(zip, i)
             /\ call.path = zip[i].filename
             /\ call.start = <<0>>
             /\ call.end = <<Len(zip[i].content)>>)
            => result = Returned(zip[i].content)

\* C2: the offset of every file member is (archive size + 30 - tail length) + the
\* header offset ZipFile reports + the byte length of the name in the local header.
C2_OffsetSkipsNameBytes ==
    phase = "open" =>
        LET tail_len == TailLength(zip, end_mb[1])
            infos == infolist(zip, tail_len)
        IN \A i \in 1..Len(zip) :
              IsFileRecord(zip, i) =>
                  Tab[zip[i].filename].offset =
                      (ArchiveSize(zip) + LocalHeaderSize - tail_len)
                      + infos[i].header_offset + Len(Encode(zip[i].filename))

\* C3: the table built from any other tail window that holds the end record and
\* the whole central directory has the same names, and the same size and offset
\* for every member, as the table the view was opened with.
C3_TailWindowIndependence ==
    (phase = "open" /\ call = NoCall) =>
        \A mb \in WindowChoices(zip) :
            LET tail_len == TailLength(zip, mb)
            IN ZipFileOpens(zip, tail_len) =>
                  LET other == build_zip_info(infolist(zip, tail_len), ArchiveSize(zip),
                                              tail_len)
                  IN /\ DOMAIN other = DOMAIN Tab
                     /\ \A n \in DOMAIN Tab :
                           /\ ("offset" \in DOMAIN Tab[n]) = ("offset" \in DOMAIN other[n])
                           /\ "offset" \in DOMAIN Tab[n] =>
                                 /\ other[n].offset = Tab[n].offset
                                 /\ other[n].size = Tab[n].size

\* C3 witness: a view of two file members built from a tail that is shorter than
\* the archive, while the default window holds the whole archive.
C3_Witness ==
    /\ phase = "open"
    /\ TailLength(zip, end_mb[1]) < ArchiveSize(zip)
    /\ TailLength(zip, DefaultEndMb) = ArchiveSize(zip)
    /\ Cardinality({n \in DOMAIN Tab : IsFileMember(Tab, n)}) >= 2

\* C4: a read of a file member with effective 0 <= start < size and end > start
\* asks the byte source for exactly [offset + start, offset + min(end, size)) and
\* returns the bytes the source answers with, which are the archive's bytes of
\* that range when the source answers in full.
C4_ReadDelegatesExactRange ==
    ReadDone =>
        LET p == NormalizePath(call.path)
        IN IsFileMember(Tab, p) =>
              LET size == Tab[p].size
                  s == Effective(call.start, size, 0)
                  e == Effective(call.end, size, size)
                  lo == Tab[p].offset + s
                  hi == Tab[p].offset + Min(e, size)
              IN (0 <= s /\ s < size /\ e > s) =>
                    /\ issued = << <<lo, hi>> >>
                    /\ served.kind # "error" => result = Returned(served.data)
                    /\ served.kind = "full" =>
                          result = Returned([k \in 1..(hi - lo) |-> ByteAt(zip, lo + k - 1)])

\* C4 witness: read(name, 1, size + 20) of a two-byte member returned its second byte.
C4_Witness ==
    /\ ReadDone
    /\ IsFileMember(Tab, NormalizePath(call.path))
    /\ Tab[NormalizePath(call.path)].size = 2
    /\ call.start = <<1>>
    /\ call.end = <<22>>
    /\ \E i \in 1..Len(zip) : result = Returned(<<zip[i].content[2]>>)

\* C5: a read whose normalized name is not in the table raises the not-found
\* error and returns no bytes, whatever start and end are.
C5_AbsentNameNotFound ==
    ReadDone =>
        (NormalizePath(call.path) \notin DOMAIN Tab =>
            /\ result = Raised("FileNotFoundError", "not found")
            /\ issued = <<>>)

\* C5 witness: a read of a name the archive does not hold, with both offsets given.
C5_Witness ==
    /\ ReadDone
    /\ call.path = <<"z">>
    /\ call.start = <<0>>
    /\ call.end = <<1>>
    /\ result.status = "raise"

\* C6: a read of a member that has children raises a signal of another kind than
\* the one raised for an absent member.
C6_DirectorySignalDistinct ==
    ReadDone =>
        LET p == NormalizePath(call.path)
        IN (p \in DOMAIN Tab /\ "children" \in DOMAIN Tab[p]) =>
              /\ result.status = "raise"
              /\ result.exc # "FileNotFoundError"

\* C7: a read of any prefix obtained by truncating a file member's name at a '/'
\* fails with the directory error.
C7_PrefixReadIsDirectory ==
    ReadDone =>
        (call.path \in FilePrefixes(zip) =>
            /\ result.status = "raise"
            /\ result.msg = "is a directory")

\* C8: list on any prefix obtained by truncating a file member's name at a '/'
\* returns the names of its immediate children, relative to it, each once.
C8_ListImmediateChildren ==
    (phase = "open" /\ call.op = "ls") =>
        (call.path \in FilePrefixes(zip) =>
            /\ result.status = "return"
            /\ {result.data[k] : k \in 1..Len(result.data)} = ImmediateChildren(zip, call.path)
            /\ Len(result.data) = Cardinality(ImmediateChildren(zip, call.path)))

\* C9: for every name of the table and every strict '/'-prefix of it, the prefix
\* is a key of the table, has children, and its children hold the next path level
\* (as a full or as a relative name).
C9_PrefixClosure ==
    phase = "open" =>
        \A n \in DOMAIN Tab : \A i \in SlashesOf(n) :
            LET prefix == SubSeq(n, 1, i - 1)
                next == NextLevel(n, i)
            IN /\ prefix \in DOMAIN Tab
               /\ "children" \in DOMAIN Tab[prefix]
               /\ \E k \in 1..Len(Tab[prefix].children) :
                     Tab[prefix].children[k] \in {next, SubSeq(next, i + 1, Len(next))}

\* C10: a read of a file member of size S whose effective start is >= S returns
\* the empty byte sequence and raises nothing.
C10_EmptyRangePolicy ==
    ReadDone =>
        LET p == NormalizePath(call.path)
        IN (IsFileMember(Tab, p) /\ Effective(call.start, Tab[p].size, 0) >= Tab[p].size) =>
              result = Returned(<<>>)

\* C10 witness: read(name, S + 10, S + 20) of a member of S >= 1 bytes returned
\* no bytes.
C10_Witness ==
    /\ ReadDone
    /\ IsFileMember(Tab, NormalizePath(call.path))
    /\ Tab[NormalizePath(call.path)].size >= 1
    /\ call.start = <<Tab[NormalizePath(call.path)].size + 10>>
    /\ call.end = <<Tab[NormalizePath(call.path)].size + 20>>
    /\ result = Returned(<<>>)

\* The way self.fs answered the call in result, "full" when it was not asked.
SrcOf == IF served.kind = "none" THEN "full" ELSE served.kind
\* What read(path, start, end) gives on the open view with self.fs answering
\* as it did for the call in result.
OutcomeOf(path, start, end) == cat_outcome(zip, Tab, path, start, end, SrcOf).result

\* C11: a read of a file member with both offsets supplied whose effective end
\* is <= its effective start returns the empty byte sequence (read(name, 0, 0)
\* included).
C11_EndNotAfterStartIsEmpty ==
    ReadDone =>
        LET p == NormalizePath(call.path)
        IN (/\ IsFileMember(Tab, p)
            /\ call.start # <<>>
            /\ call.end # <<>>
            /\ Effective(call.end, Tab[p].size, Tab[p].size)
                  <= Effective(call.start, Tab[p].size, 0))
           => result = Returned(<<>>)

\* C12 as stated: for every k >= 0, read(name, -k, unspecified) of a file member
\* of size S gives what read(name, max(0, S - k), S) gives.
C12_NegativeStartSliceFromZero ==
    ReadDone =>
        LET p == NormalizePath(call.path)
        IN (IsFileMember(Tab, p) /\ call.start # <<>> /\ call.start[1] <= 0
            /\ call.end = <<>>)
           => result = OutcomeOf(call.path, <<Max(0, Tab[p].size + call.start[1])>>,
                                 <<Tab[p].size>>)

\* C12 amended: for every k >= 1, read(name, -k, unspecified) of a file member of
\* size S gives what read(name, max(0, S - k), S) gives.
C12_NegativeStartSlice ==
    ReadDone =>
        LET p == NormalizePath(call.path)
        IN (IsFileMember(Tab, p) /\ call.start # <<>> /\ call.start[1] < 0
            /\ call.end = <<>>)
           => result = OutcomeOf(call.path, <<Max(0, Tab[p].size + call.start[1])>>,
                                 <<Tab[p].size>>)

\* C12 witness: read(name, -1, unspecified) of a two-byte member returned its
\* last byte.
C12_Witness ==
    /\ ReadDone
    /\ IsFileMember(Tab, NormalizePath(call.path))
    /\ Tab[NormalizePath(call.path)].size = 2
    /\ call.start = <<-1>>
    /\ call.end = <<>>
    /\ served.kind = "full"
    /\ \E i \in 1..Len(zip) : Len(zip[i].content) = 2 /\ result = Returned(<<zip[i].content[2]>>)

\* C13: a read of a file member with a negative start v gives what the read with
\* start max(0, size + v) gives, and one with a negative end v gives what the
\* read with end max(0, size + v) gives, the other argument being the same.
C13_NegativeOffsetsReplaced ==
    ReadDone =>
        LET p == NormalizePath(call.path)
        IN IsFileMember(Tab, p) =>
              /\ (call.start # <<>> /\ call.start[1] < 0) =>
                    result = OutcomeOf(call.path, <<Max(0, Tab[p].size + call.start[1])>>,
                                       call.end)
              /\ (call.end # <<>> /\ call.end[1] < 0) =>
                    result = OutcomeOf(call.path, call.start,
                                       <<Max(0, Tab[p].size + call.end[1])>>)

\* C14: a read of a file member uses 0 and size only for an unspecified start
\* and end: it is empty without a request when the effective start is >= size or
\* the effective end <= the effective start, and otherwise requests
\* [offset + start, offset + min(end, size)); read(name) requests the whole member.
C14_DefaultsOnlyWhenUnspecified ==
    ReadDone =>
        LET p == NormalizePath(call.path)
        IN IsFileMember(Tab, p) =>
              LET size == Tab[p].size
                  s == Effective(call.start, size, 0)
                  e == Effective(call.end, size, size)
              IN IF s >= size \/ e <= s
                 THEN issued = <<>> /\ result = Returned(<<>>)
                 ELSE issued = << <<Tab[p].offset + s, Tab[p].offset + Min(e, size)>> >>

\* C15: a read that returns after a request returns exactly as many bytes as the
\* range it requested.
C15_ReturnsRequestedLength ==
    (ReadDone /\ result.status = "return" /\ issued # <<>>) =>
        Len(result.data) = issued[1][2] - issued[1][1]

\* C16: for every name n of the table, read(n), read("/" + n) and read(n + "/")
\* give the same outcome, and a normalized path is its own normal form.
C16_SlashesIrrelevant ==
    ReadDone =>
        /\ call.path \in DOMAIN Tab =>
              /\ result = OutcomeOf(<<Slash>> \o call.path, call.start, call.end)
              /\ result = OutcomeOf(call.path \o <<Slash>>, call.start, call.end)
        /\ NormalizePath(NormalizePath(call.path)) = NormalizePath(call.path)

\* C17: when the tail request ends in a 404 or 416 status, in a network error or
\* in an answer without Content-Range, construction raises, the view holds no
\* table, and no call on it and no range request is made.
C17_TailFetchFailed ==
    /\ tail \in {"404", "416", "200", "error"} =>
          /\ phase = "failed"
          /\ result.status = "raise"
          /\ files = <<>>
    /\ phase = "failed" => (files = <<>> /\ call = NoCall /\ issued = <<>>)

\* C17 witness: the tail request was answered 416 and construction raised.
C17_Witness == tail = "416" /\ phase = "failed" /\ result.status = "raise"

\* C18: when the fetched tail is shorter than the central directory and the end
\* record, construction raises and no view exists; the table of an open view
\* holds a file entry for every record of the archive.
C18_MalformedArchive ==
    /\ (tail = "206" /\ TailLength(zip, end_mb[1]) < CentralDirSize(zip) + EndRecordSize) =>
          /\ phase = "failed"
          /\ result.status = "raise"
          /\ files = <<>>
    /\ phase = "open" =>
          \A i \in 1..Len(zip) :
              /\ rstrip(zip[i].filename) \in DOMAIN Tab
              /\ "size" \in DOMAIN Tab[rstrip(zip[i].filename)]

\* C18 witness: a tail one byte short of the central directory of two records
\* was fetched and construction raised.
C18_Witness ==
    /\ phase = "failed"
    /\ tail = "206"
    /\ Len(zip) = 2
    /\ end_mb = <<CentralDirSize(zip) + EndRecordSize - 1>>
    /\ result = Raised("BadZipFile", "")

\* C19: one tail request per view, made before anything else; a call or a range
\* request on the view happens only after that request succeeded and the whole
\* table was built.
C19_ConstructThenRead ==
    /\ fetches <= 1
    /\ (phase = "new") = (fetches = 0)
    /\ phase = "open" => (files # <<>> /\ tail = "206")
    /\ (call # NoCall \/ issued # <<>>) =>
          /\ phase = "open"
          /\ fetches = 1
          /\ files # <<>>
          /\ \A i \in 1..Len(zip) : rstrip(zip[i].filename) \in DOMAIN files[1]

\* C19 witness: a read issued a range request on a view whose tail was fetched once.
C19_Witness == ReadDone /\ issued # <<>> /\ fetches = 1 /\ tail = "206"

\* C20: no step taken on an open view changes its table or the archive it is
\* bound to, whatever the outcome of the call.
C20_TableImmutable ==
    [][phase = "open" => (files' = files /\ zip' = zip /\ end_mb' = end_mb
                          /\ phase' = "open")]_vars

\* C20 witness: a read failed in the byte source on an open view.
C20_Witness ==
    /\ ReadDone
    /\ served.kind = "error"
    /\ result.status = "raise"
    /\ files # <<>>

\* The position in the archive of the record whose stripped name is name.
RecordOf(z, name) == CHOOSE i \in 1..Len(z) : rstrip(z[i].filename) = name
\* The names the table holds with a size and an offset.
Registered(tab) == {n \in DOMAIN tab : "size" \in DOMAIN tab[n]}
\* The name with its last '/'-delimited segment removed, "" if it has none.
ImmediateParent(name) ==
    IF \E j \in 1..Len(name) : name[j] = Slash
    THEN SubSeq(name, 1, (CHOOSE j \in 1..Len(name) :
                             name[j] = Slash /\ \A k \in (j + 1)..Len(name) : name[k] # Slash) - 1)
    ELSE <<>>
\* The elements of a sequence.
Range(seq) == {seq[k] : k \in 1..Len(seq)}

\* C24: exists(path) returns whether the normalized path is a key of the table,
\* list(path) returns, and neither asks anything of the byte source.
C24_ExistsAndListFromTable ==
    /\ (phase = "open" /\ call.op = "exists") =>
          /\ result = Returned(IF NormalizePath(call.path) \in DOMAIN Tab THEN <<1>> ELSE <<0>>)
          /\ issued = <<>>
    /\ (phase = "open" /\ call.op = "ls") =>
          /\ result.status = "return"
          /\ issued = <<>>

\* C26: for a file member whose local header has an extra field of e > 0 bytes
\* the table's offset is the true content start minus e, and read(name, 0, size),
\* answered in full, returns the size bytes that start e bytes before the content.
C26_ExtraFieldShift ==
    phase = "open" =>
        \A i \in 1..Len(zip) :
            (IsFileRecord(zip, i) /\ zip[i].extra > 0) =>
                LET n == zip[i].filename
                    size == Len(zip[i].content)
                    from == TrueContentStart(zip, i) - zip[i].extra
                IN /\ n \in DOMAIN Tab
                   /\ Tab[n].offset = from
                   /\ (/\ call.op = "cat"
                       /\ call.path = n
                       /\ call.start = <<0>>
                       /\ call.end = <<size>>
                       /\ size > 0
                       /\ served.kind = "full")
                      => result = Returned([j \in 1..size |-> ByteAt(zip, from + j - 1)])

\* C27: a record whose name ends in '/' gets no size and offset entry, is in no
\* children list, and a read of it returns nothing.
C27_DirectoryRecordsNotRegistered ==
    phase = "open" =>
        \A i \in 1..Len(zip) :
            ~IsFileRecord(zip, i) =>
                LET n == rstrip(zip[i].filename)
                IN /\ n \notin Registered(Tab)
                   /\ \A p \in DOMAIN Tab :
                         "children" \in DOMAIN Tab[p] => n \notin Range(Tab[p].children)
                   /\ (call.op = "cat" /\ NormalizePath(call.path) = n)
                         => result.status = "raise"

\* C28: in the table of an open view an entry has children exactly when a
\* registered name (one the table holds with size and offset) has it as
\* immediate parent, and then its children are those names, each once; an entry
\* that is no record of the archive has children only; the root "" is such an
\* entry whenever a record's name has no '/'.
C28_ChildrenIffParent ==
    phase = "open" =>
        /\ \A n \in DOMAIN Tab :
              LET kids == {m \in Registered(Tab) : ImmediateParent(m) = n}
              IN /\ ("children" \in DOMAIN Tab[n]) = (kids # {})
                 /\ "children" \in DOMAIN Tab[n] =>
                       /\ Range(Tab[n].children) = kids
                       /\ Len(Tab[n].children) = Cardinality(kids)
                 /\ (\A i \in 1..Len(zip) : rstrip(zip[i].filename) # n) =>
                       DOMAIN Tab[n] = {"children"}
        /\ (\E i \in 1..Len(zip) : ~HasSlash(rstrip(zip[i].filename))) =>
              (<<>> \in DOMAIN Tab /\ DOMAIN Tab[<<>>] = {"children"})

\* C28 witness: a table with the root entry and an entry for a parent that is no
\* record of the archive, both with children only.
C28_Witness ==
    /\ phase = "open"
    /\ <<>> \in DOMAIN Tab
    /\ <<"d">> \in DOMAIN Tab
    /\ DOMAIN Tab[<<"d">>] = {"children"}
    /\ DOMAIN Tab[<<>>] = {"children"}
    /\ Len(Tab[<<>>].children) = 1

\* C29: every range a read asks of the byte source has positive length, lies
\* inside [offset, offset + size) of the table's entry and, in an archive without
\* extra fields, inside the content of the member in the archive.
C29_RequestInsideMember ==
    (ReadDone /\ issued # <<>>) =>
        LET p == NormalizePath(call.path)
            i == RecordOf(zip, p)
            lo == issued[1][1]
            hi == issued[1][2]
        IN /\ Len(issued) = 1
           /\ lo < hi
           /\ p \in Registered(Tab)
           /\ Tab[p].offset <= lo
           /\ hi <= Tab[p].offset + Tab[p].size
           /\ (\A k \in 1..Len(zip) : zip[k].extra = 0) =>
                 /\ TrueContentStart(zip, i) <= lo
                 /\ hi <= TrueContentStart(zip, i) + Len(zip[i].content)

\* C30: a read of a name the table does not hold, of a directory, or of a range
\* that is empty after the defaults and the negative offsets asks nothing of the
\* byte source; a read that asks is of a file member and a non-empty range.
C30_NoRequestBeforeChecks ==
    ReadDone =>
        LET p == NormalizePath(call.path)
        IN /\ result.exc = "FileNotFoundError" => (issued = <<>> /\ served = NotServed)
           /\ (p \notin DOMAIN Tab \/ ~IsFileMember(Tab, p)) =>
                 (result.status = "raise" /\ issued = <<>> /\ served = NotServed)
           /\ IsFileMember(Tab, p) =>
                 LET r == cat_range(Tab[p], call.start, call.end)
                     empty == r[1] >= Tab[p].size \/ r[2] <= r[1]
                 IN /\ empty => (result = Returned(<<>>) /\ issued = <<>>
                                 /\ served = NotServed)
                    /\ ~empty => (Len(issued) = 1 /\ served # NotServed)

\* C30 witness: read(name, S + 10, S + 20) of a member of S >= 1 bytes returned
\* empty and the byte source was not asked.
C30_Witness ==
    /\ ReadDone
    /\ IsFileMember(Tab, NormalizePath(call.path))
    /\ Tab[NormalizePath(call.path)].size >= 1
    /\ call.start = <<Tab[NormalizePath(call.path)].size + 10>>
    /\ call.end # <<>>
    /\ result = Returned(<<>>)
    /\ served = NotServed
    /\ issued = <<>>

\* C25: construction always ends: every view that is being constructed is
\* eventually open or has failed, also when the server never answers.
C25_ConstructionEnds == <>(phase \in {"open", "failed"})

\* The entries of the log made before the call whose outcome the caller holds.
Earlier == 1..(Len(log) - Len(issued))

\* C22: a failure of the byte source during a read is raised to the caller of
\* that read; a read made after a failed one has the outcome it has on a view
\* without failures, and returns the archive's bytes of the range it requested
\* when the source answers it in full.
C22_SourceFailureIsPerRead ==
    ReadDone =>
        /\ served.kind = "error" =>
              (result.status = "raise" /\ result.exc = "ClientResponseError")
        /\ (\E k \in Earlier : log[k].kind = "error") =>
              /\ served.kind \in {"none", "full"} =>
                    result = cat_outcome(zip, Tab, call.path, call.start, call.end, "full").result
              /\ served.kind = "full" =>
                    result = Returned([j \in 1..(issued[1][2] - issued[1][1]) |->
                                          ByteAt(zip, issued[1][1] + j - 1)])

\* C22 witness: the first request of the session failed, and the next read, of
\* another range, was answered in full and returned bytes.
C22_Witness ==
    /\ ReadDone
    /\ Len(log) = 2
    /\ log[1].kind = "error"
    /\ log[2].kind = "full"
    /\ log[1].range # log[2].range
    /\ issued = <<log[2].range>>
    /\ result.status = "return"
    /\ result.data # <<>>

\* C23: a get of a non-empty range of a file member makes exactly one request of
\* the byte source, whatever the source answers and whatever was requested
\* before; any other get makes none.
C23_OneRequestPerGet ==
    [][(call = NoCall /\ call'.op = "cat") =>
          LET p == NormalizePath(call'.path)
              asks == /\ IsFileMember(files[1], p)
                      /\ LET r == cat_range(files[1][p], call'.start, call'.end)
                         IN r[1] < files[1][p].size /\ r[2] > r[1]
          IN IF asks
             THEN /\ Len(issued') = 1
                  /\ Len(log') = Len(log) + 1
                  /\ log'[Len(log')].range = issued'[1]
                  /\ SubSeq(log', 1, Len(log)) = log
             ELSE issued' = <<>> /\ log' = log]_vars

\* C23 witness: a request failed, the same get was made again, and the byte
\* source was asked for the same range a second time.
C23_Witness ==
    /\ ReadDone
    /\ Len(log) = 2
    /\ log[1].range = log[2].range
    /\ log[1].kind = "error"
    /\ issued = <<log[2].range>>

\* C21: whatever the other tasks on the view are doing, a read in flight has
\* requested the range it requests when run alone, and a finished read has the
\* outcome it has when run alone with the same answer of the byte source: the
\* archive's bytes of its own range when answered in full.
C21_ConcurrentReadsIndependent ==
    tasks # NoTasks =>
        \A t \in Tasks :
            tasks[t].pc # "idle" =>
                LET alone == cat_outcome(zip, Tab, tasks[t].path, tasks[t].start, <<>>,
                                         IF tasks[t].served.kind = "none" THEN "full"
                                         ELSE tasks[t].served.kind)
                    rr == tasks[t].issued[1]
                IN /\ tasks[t].issued = alone.issued
                   /\ tasks[t].pc = "done" =>
                         /\ tasks[t].result = alone.result
                         /\ tasks[t].served.kind = "full" =>
                               tasks[t].result =
                                   Returned([j \in 1..(rr[2] - rr[1]) |->
                                                ByteAt(zip, rr[1] + j - 1)])

\* C21 witness: one read was answered in full and finished while another read,
\* of another range, was in flight.
C21_Witness ==
    /\ tasks # NoTasks
    /\ \E t, u \in Tasks :
          /\ tasks[t].pc = "done"
          /\ tasks[t].served.kind = "full"
          /\ tasks[t].result.data # <<>>
          /\ tasks[u].pc = "await"
          /\ tasks[u].issued # tasks[t].issued

====
